---- MODULE Spec2Model ----
(***************************************************************************)
(* Model of the Cloudflare Gateway blocking-page worker (src/src/index.js). *)
(*                                                                         *)
(* A JavaScript string is a sequence of one-character strings, so that     *)
(* escaping, decoding and splitting are computed character by character.   *)
(* Each request slot r runs one asynchronous control flow; pc[r] is the    *)
(* await at which that flow is suspended.                                  *)
(***************************************************************************)
EXTENDS Integers, Sequences, FiniteSets, TLC

\* ------------------------------------------------------------------------
\* Bounds of the model
\* ------------------------------------------------------------------------
\* at most this many query parameters are present in one request
MaxParams == 2
\* number of request slots
NumReqs == 2
\* longest string given to escapeHtml as a rule id
MaxLen == 3

Reqs == 1..NumReqs
\* the slot in use when requests are handled one after the other
Sequential == {1}

\* ------------------------------------------------------------------------
\* JavaScript values
\* ------------------------------------------------------------------------
\* null / undefined: a one-element sequence that is not a character
Null == <<"null">>
\* the URIError thrown by decodeURIComponent
URIError == <<"URIError">>

Truthy(s) == s # Null /\ s # <<>>
\* a || b
JsOr(a, b) == IF Truthy(a) THEN a ELSE b

\* s.includes(t)
Contains(s, t) ==
  \E i \in 1..(Len(s) - Len(t) + 1) : SubSeq(s, i, i + Len(t) - 1) = t

\* s.replace(/ch/g, rep)
RECURSIVE ReplaceAll(_, _, _)
ReplaceAll(s, ch, rep) ==
  IF s = <<>> THEN <<>>
  ELSE (IF Head(s) = ch THEN rep ELSE <<Head(s)>>) \o ReplaceAll(Tail(s), ch, rep)

\* s.split('/').pop()
LastSegment(s) ==
  LET idx == {i \in 1..Len(s) : s[i] = "/"}
      last == CHOOSE i \in idx : \A j \in idx : j <= i
  IN IF idx = {} THEN s ELSE SubSeq(s, last + 1, Len(s))

\* s.split(sep): the pieces between the separators
RECURSIVE Split(_, _)
Split(s, sep) ==
  LET idx == {i \in 1..Len(s) : s[i] = sep}
      first == CHOOSE i \in idx : \A j \in idx : i <= j
  IN IF idx = {} THEN <<s>>
     ELSE <<SubSeq(s, 1, first - 1)>> \o Split(SubSeq(s, first + 1, Len(s)), sep)

WhiteSpace == {" ", "\t", "\n"}
RECURSIVE TrimStart(_)
TrimStart(s) ==
  IF s # <<>> /\ Head(s) \in WhiteSpace THEN TrimStart(Tail(s)) ELSE s
RECURSIVE TrimEnd(_)
TrimEnd(s) ==
  IF s # <<>> /\ s[Len(s)] \in WhiteSpace THEN TrimEnd(SubSeq(s, 1, Len(s) - 1)) ELSE s
\* s.trim()
Trim(s) == TrimEnd(TrimStart(s))

\* literal strings of the source
RulePrefix == <<"R", "u", "l", "e", " ">>
CacheKeyPrefix == <<"r", "u", "l", "e", ":">>
UnknownRule == <<"U", "n", "k", "n", "o", "w", "n", " ", "R", "u", "l", "e">>
SecurityPolicy == <<"S", "e", "c", "u", "r", "i", "t", "y", " ", "P", "o", "l", "i", "c", "y">>
NotSpecified == <<"N", "o", "t", " ", "s", "p", "e", "c", "i", "f", "i", "e", "d">>
RequestedResource == <<"t", "h", "e", " ", "r", "e", "q", "u", "e", "s", "t", "e", "d", " ", "r", "e", "s", "o", "u", "r", "c", "e">>
ApplicationJson == <<"a", "p", "p", "l", "i", "c", "a", "t", "i", "o", "n", "/", "j", "s", "o", "n">>
ApiAccounts == <<"h", "t", "t", "p", "s", ":", "/", "/", "a", "p", "i", ".", "c", "l", "o", "u", "d", "f", "l", "a", "r", "e", ".", "c", "o", "m", "/", "c", "l", "i", "e", "n", "t", "/", "v", "4", "/", "a", "c", "c", "o", "u", "n", "t", "s", "/">>
GatewayRules == <<"/", "g", "a", "t", "e", "w", "a", "y", "/", "r", "u", "l", "e", "s", "/">>
\* the string 'null' (not the value null)
NullLiteral == <<"n", "u", "l", "l">>

\* ------------------------------------------------------------------------
\* escapeHtml: five replace passes in the order of the source
\* ------------------------------------------------------------------------
\* (variant: the pass for & runs last)
escapeHtml_m(text) ==
  IF ~Truthy(text) THEN <<>>
  ELSE LET s1 == ReplaceAll(text, "<", <<"&", "l", "t", ";">>)
           s2 == ReplaceAll(s1, ">", <<"&", "g", "t", ";">>)
           s3 == ReplaceAll(s2, "\"", <<"&", "q", "u", "o", "t", ";">>)
           s4 == ReplaceAll(s3, "'", <<"&", "#", "3", "9", ";">>)
       IN ReplaceAll(s4, "&", <<"&", "a", "m", "p", ";">>)

escapeHtml(text) ==
  IF ~Truthy(text) THEN <<>>
  ELSE LET s1 == ReplaceAll(text, "&", <<"&", "a", "m", "p", ";">>)
           s2 == ReplaceAll(s1, "<", <<"&", "l", "t", ";">>)
           s3 == ReplaceAll(s2, ">", <<"&", "g", "t", ";">>)
           s4 == ReplaceAll(s3, "\"", <<"&", "q", "u", "o", "t", ";">>)
       IN ReplaceAll(s4, "'", <<"&", "#", "3", "9", ";">>)

\* ------------------------------------------------------------------------
\* decodeURIComponent: %XX escapes are decoded, a malformed escape throws
\* ------------------------------------------------------------------------
HexVal(c) ==
  CASE c = "0" -> 0 [] c = "1" -> 1 [] c = "2" -> 2 [] c = "3" -> 3
    [] c = "4" -> 4 [] c = "5" -> 5 [] c = "6" -> 6 [] c = "7" -> 7
    [] c = "8" -> 8 [] c = "9" -> 9
    [] c \in {"A", "a"} -> 10 [] c \in {"B", "b"} -> 11
    [] c \in {"C", "c"} -> 12 [] c \in {"D", "d"} -> 13
    [] c \in {"E", "e"} -> 14 [] c \in {"F", "f"} -> 15
    [] OTHER -> -1

\* the ASCII characters an escape of the modelled inputs can denote
Ascii(b) ==
  CASE b = 34 -> "\"" [] b = 37 -> "%" [] b = 38 -> "&" [] b = 39 -> "'"
    [] b = 47 -> "/" [] b = 51 -> "3" [] b = 60 -> "<" [] b = 62 -> ">"
    [] OTHER -> "?"

\* number of continuation bytes a UTF-8 lead byte announces (-1: not a lead)
Continuations(b) ==
  IF b >= 194 /\ b <= 223 THEN 1
  ELSE IF b >= 224 /\ b <= 239 THEN 2
  ELSE IF b >= 240 /\ b <= 244 THEN 3
  ELSE -1

\* the byte of the escape at position i of s, or -1 when there is none
EscapeAt(s, i) ==
  IF i + 2 <= Len(s) /\ s[i] = "%" /\ HexVal(s[i+1]) >= 0 /\ HexVal(s[i+2]) >= 0
  THEN 16 * HexVal(s[i+1]) + HexVal(s[i+2])
  ELSE -1

RECURSIVE decodeURIComponent(_)
decodeURIComponent(s) ==
  IF s = <<>> THEN <<>>
  ELSE IF Head(s) # "%"
  THEN LET rest == decodeURIComponent(Tail(s))
       IN IF rest = URIError THEN URIError ELSE <<Head(s)>> \o rest
  ELSE LET b == EscapeAt(s, 1)
           n == IF b >= 128 THEN Continuations(b) ELSE 0
           wellFormed ==
             /\ b >= 0
             /\ n >= 0
             /\ \A k \in 1..n :
                  LET c == EscapeAt(s, 1 + 3 * k) IN c >= 128 /\ c <= 191
           rest == decodeURIComponent(SubSeq(s, 4 + 3 * n, Len(s)))
       IN IF ~wellFormed \/ rest = URIError THEN URIError
          ELSE <<IF b < 128 THEN Ascii(b) ELSE "U+">> \o rest

\* ------------------------------------------------------------------------
\* Requests
\* ------------------------------------------------------------------------
RuleIdParams == <<"cf_rule_id", "rule_id", "ruleid">>
ParamNames ==
  {"cf_rule_id", "rule_id", "ruleid", "cf_site_uri", "blocked_url", "url",
   "cf_request_category_names", "category", "timestamp", "cf_user_email"}

\* the test suite's <script>alert(1)</script>, shortened
Payload == <<"<", "/", "s", ">">>
\* a blocked URL with a stray percent sign, and one with an encoded '<'
StrayPercent == <<"%">>
EncodedLt == <<"%", "3", "C">>

ParamValues(p) ==
  IF p \in {"cf_rule_id", "rule_id", "ruleid"} THEN {<<>>, Payload}
  ELSE IF p \in {"cf_site_uri", "blocked_url", "url"}
  THEN {<<>>, Payload, StrayPercent, EncodedLt}
  ELSE IF p \in {"cf_request_category_names", "category"} THEN {<<>>, Payload}
  ELSE IF p = "timestamp" THEN {<<>>, <<"t">>}
  ELSE {<<>>, <<"e">>}

NoParams == [p \in ParamNames |-> Null]

RECURSIVE ParamsUpTo(_)
ParamsUpTo(n) ==
  IF n = 0 THEN {NoParams}
  ELSE LET less == ParamsUpTo(n - 1)
       IN less \cup UNION {
            UNION { {[f EXCEPT ![p] = v] : v \in ParamValues(p)}
                    : p \in {x \in ParamNames : f[x] = Null} }
            : f \in less }

\* an Accept header that lists application/json after another type
HtmlThenJson == <<"h", ",">> \o ApplicationJson
AcceptValues == {Null, ApplicationJson, HtmlThenJson, <<"*", "/", "*">>}

\* urlOk: new URL(request.url) succeeds; origin: the Origin header
Requests ==
  {[urlOk |-> TRUE, params |-> f, accept |-> a, origin |-> Null] :
      f \in ParamsUpTo(MaxParams), a \in AcceptValues}
  \cup {[urlOk |-> FALSE, params |-> NoParams, accept |-> Null, origin |-> Null]}

\* url.searchParams.get / has
Get(q, p) == q.params[p]
Has(q, p) == q.params[p] # Null

\* (variant: rule_id is looked at before cf_rule_id)
RuleIdOf_m(q) == JsOr(JsOr(Get(q, "rule_id"), Get(q, "cf_rule_id")), Get(q, "ruleid"))

RuleIdOf(q) == JsOr(JsOr(Get(q, "cf_rule_id"), Get(q, "rule_id")), Get(q, "ruleid"))
BlockedUrlOf(q) == JsOr(JsOr(Get(q, "cf_site_uri"), Get(q, "blocked_url")), Get(q, "url"))
CategoryOf(q) == JsOr(Get(q, "cf_request_category_names"), Get(q, "category"))
TimestampOf(q) == Get(q, "timestamp")
UserEmailOf(q) == Get(q, "cf_user_email")

\* (variant: a timestamp counts as gateway context)
hasGatewayContext_m(q) ==
  \/ Truthy(RuleIdOf(q)) \/ Truthy(BlockedUrlOf(q))
  \/ Truthy(CategoryOf(q)) \/ Truthy(UserEmailOf(q)) \/ Truthy(TimestampOf(q))
  \/ Has(q, "cf_rule_id") \/ Has(q, "cf_site_uri")
  \/ Has(q, "cf_request_category_names") \/ Has(q, "cf_user_email")

hasGatewayContext(q) ==
  \/ Truthy(RuleIdOf(q)) \/ Truthy(BlockedUrlOf(q))
  \/ Truthy(CategoryOf(q)) \/ Truthy(UserEmailOf(q))
  \/ Has(q, "cf_rule_id") \/ Has(q, "cf_site_uri")
  \/ Has(q, "cf_request_category_names") \/ Has(q, "cf_user_email")

\* (variant: the header must equal application/json)
isJsonRequest_m(q) == q.accept = ApplicationJson

\* acceptHeader && acceptHeader.includes('application/json')
isJsonRequest(q) == Truthy(q.accept) /\ Contains(q.accept, ApplicationJson)

\* ------------------------------------------------------------------------
\* Environment bindings and the remote API
\* ------------------------------------------------------------------------
ApiToken == <<"T">>
AccountId == <<"A">>
\* the name the API reports for the rule
ApiName == <<"N">>

\* env: the credentials, whether the RULE_CACHE binding exists, and the
\* optional settings (left unset here)
Envs ==
  [CLOUDFLARE_API_TOKEN : {Null, ApiToken},
   CLOUDFLARE_ACCOUNT_ID : {Null, AccountId},
   RULE_CACHE : BOOLEAN,
   CACHE_TTL : {Null},
   ALLOWED_ORIGINS : {Null}]

CacheKey(ruleId) == CacheKeyPrefix \o ruleId
RuleIdValues == UNION {ParamValues(RuleIdParams[i]) \ {<<>>} : i \in 1..Len(RuleIdParams)}
CacheKeys == {CacheKey(id) : id \in RuleIdValues}

ApiUrl(accountId, ruleId) == ApiAccounts \o accountId \o GatewayRules \o ruleId

\* what one call of fetch() produces: an exception, or a response with a
\* status and a body (a name, no name, or text that is not JSON)
Threw == [threw |-> TRUE, status |-> 0, body |-> "none"]
Answer(status, body) == [threw |-> FALSE, status |-> status, body |-> body]
ApiOutcomes ==
  {Threw}
  \cup {Answer(200, b) : b \in {"name", "noname", "unparsable"}}
  \cup {Answer(s, "none") : s \in {401, 404, 429, 500, 503}}
\* the outcomes used while the request itself is varied
BasicOutcomes == {Answer(200, "name"), Answer(500, "none")}

\* error values
NoError == [kind |-> "none", status |-> 0, attempt |-> 0]
NetworkError(attempt) == [kind |-> "network", status |-> 0, attempt |-> attempt]
SyntaxError(attempt) == [kind |-> "json", status |-> 0, attempt |-> attempt]
StatusError(status, attempt) == [kind |-> "status", status |-> status, attempt |-> attempt]

\* ------------------------------------------------------------------------
\* fetchWithRetry
\* ------------------------------------------------------------------------
\* (variant: one retry more than the call site passes)
MaxRetries_m == 3 + 1

MaxRetries == 3

\* (variant: linear backoff)
Backoff_m(attempt) == (attempt + 1) * 1000

\* Math.pow(2, attempt) * 1000
Backoff(attempt) == (2 ^ attempt) * 1000

IsRetryableStatus(status) == status = 429 \/ status >= 500
ResponseOk(status) == status >= 200 /\ status <= 299

\* (variant: the name of the payload is ignored)
ExtractName_m(body, url) == RulePrefix \o LastSegment(url)

\* data.result?.name || ('Rule ' + url.split('/').pop())
ExtractName(body, url) ==
  JsOr(IF body = "name" THEN ApiName ELSE Null, RulePrefix \o LastSegment(url))

\* (variant: on the last attempt the error of the first attempt is rethrown)
CatchBlock_m(error, attempt, maxRetries) ==
  IF attempt = maxRetries
  THEN [kind |-> "throw", value |-> Null, error |-> [error EXCEPT !.attempt = 0], delay |-> 0]
  ELSE [kind |-> "retry", value |-> Null, error |-> error, delay |-> Backoff(attempt)]

\* the catch block: rethrow on the last attempt, otherwise wait and loop
CatchBlock(error, attempt, maxRetries) ==
  IF attempt = maxRetries
  THEN [kind |-> "throw", value |-> Null, error |-> error, delay |-> 0]
  ELSE [kind |-> "retry", value |-> Null, error |-> error, delay |-> Backoff(attempt)]

\* the body of the try block for the outcome oc of fetch(); a throw inside
\* the try block lands in the catch block of the same iteration
TryBlock(url, oc, attempt, maxRetries, lastErr) ==
  IF oc.threw THEN CatchBlock(NetworkError(attempt), attempt, maxRetries)
  ELSE IF IsRetryableStatus(oc.status)
  THEN IF attempt = maxRetries
       THEN CatchBlock(StatusError(oc.status, attempt), attempt, maxRetries)
       ELSE [kind |-> "retry", value |-> Null, error |-> lastErr, delay |-> Backoff(attempt)]
  ELSE IF ~ResponseOk(oc.status)
  THEN CatchBlock(StatusError(oc.status, attempt), attempt, maxRetries)
  ELSE IF oc.body = "unparsable"
  THEN CatchBlock(SyntaxError(attempt), attempt, maxRetries)
  ELSE [kind |-> "return", value |-> ExtractName(oc.body, url),
        error |-> lastErr, delay |-> 0]

\* ------------------------------------------------------------------------
\* Response builders
\* ------------------------------------------------------------------------
NoPage ==
  [ruleNameDiv |-> <<>>, blockedUrlDiv |-> <<>>, ruleIdDiv |-> <<>>,
   categoryDiv |-> <<>>, emailPreview |-> <<>>, scriptBody |-> <<>>,
   styleNonce |-> Null, scriptNonce |-> Null]
NoJson == [rule_id |-> Null, rule_name |-> Null, blocked_url |-> Null, category |-> Null]
\* the nonces of the Content-Security-Policy header
NoCsp == [styleSrc |-> Null, scriptSrc |-> Null]
NoResponse ==
  [status |-> 0, contentType |-> "", text |-> "", json |-> NoJson, page |-> NoPage,
   allowOrigin |-> Null, csp |-> NoCsp]

TextResponse(status, text) ==
  [status |-> status, contentType |-> "text/plain", text |-> text,
   json |-> NoJson, page |-> NoPage, allowOrigin |-> Null, csp |-> NoCsp]

\* the body of the e-mail: the fields in the order of the template
generateEmailContent(ruleName, ruleId, blockedUrl, category) ==
  JsOr(blockedUrl, NotSpecified) \o <<"\n">> \o ruleName \o <<"\n">>
    \o JsOr(ruleId, NotSpecified)
    \o (IF Truthy(category) THEN <<"\n">> \o category ELSE <<>>)

\* the e-mail body inside the template literal of the inline script:
\* backticks and dollar signs get a backslash, nothing else is escaped
\* (Backtick stands for the backtick character, which a TLA+ string cannot hold)
Backtick == "bt"
ScriptEscape(s) ==
  ReplaceAll(ReplaceAll(s, Backtick, <<"\\", Backtick>>), "$", <<"\\", "$">>)

\* the interpolation sites of the template that carry request data;
\* threw: decodeURIComponent raised URIError
generateBlockingPage(ruleName, ruleId, blockedUrl, category, nonce) ==
  LET decoded == IF Truthy(blockedUrl) THEN decodeURIComponent(blockedUrl) ELSE <<>>
      displayUrl == IF Truthy(blockedUrl) THEN escapeHtml(decoded) ELSE RequestedResource
      displayCategory ==
        IF Truthy(category) THEN <<" ", "(">> \o escapeHtml(category) \o <<")">> ELSE <<>>
      body == generateEmailContent(ruleName, ruleId, displayUrl, category)
  IN IF decoded = URIError THEN [threw |-> TRUE, page |-> NoPage]
     ELSE [threw |-> FALSE,
           page |-> [ruleNameDiv |-> escapeHtml(ruleName) \o displayCategory,
                     blockedUrlDiv |-> IF Truthy(blockedUrl) THEN displayUrl ELSE <<>>,
                     ruleIdDiv |-> IF Truthy(ruleId) THEN escapeHtml(ruleId) ELSE <<>>,
                     categoryDiv |-> IF Truthy(category) THEN category ELSE <<>>,
                     emailPreview |-> escapeHtml(body),
                     scriptBody |-> ScriptEscape(body),
                     styleNonce |-> nonce,
                     scriptNonce |-> nonce]]

\* (variant: any origin is allowed once a list is configured)
AllowOrigin_m(e, origin) ==
  LET allowedOrigins ==
        IF Truthy(e.ALLOWED_ORIGINS)
        THEN LET parts == Split(e.ALLOWED_ORIGINS, ",")
             IN [i \in 1..Len(parts) |-> Trim(parts[i])]
        ELSE <<>>
  IN IF Len(allowedOrigins) > 0 /\ Truthy(origin) THEN origin ELSE NullLiteral

\* the Access-Control-Allow-Origin value: allowedOrigins.length > 0 &&
\* origin && allowedOrigins.includes(origin) ? origin : 'null'
AllowOrigin(e, origin) ==
  LET allowedOrigins ==
        IF Truthy(e.ALLOWED_ORIGINS)
        THEN LET parts == Split(e.ALLOWED_ORIGINS, ",")
             IN [i \in 1..Len(parts) |-> Trim(parts[i])]
        ELSE <<>>
  IN IF /\ Len(allowedOrigins) > 0
        /\ Truthy(origin)
        /\ \E i \in 1..Len(allowedOrigins) : allowedOrigins[i] = origin
     THEN origin ELSE NullLiteral

\* the part of handleJsonRequest after the rule name is known
handleJsonRequest(q, name, e) ==
  [threw |-> FALSE,
   response |-> [status |-> 200, contentType |-> "application/json", text |-> "",
                 json |-> [rule_id |-> RuleIdOf(q), rule_name |-> name,
                           blocked_url |-> BlockedUrlOf(q), category |-> CategoryOf(q)],
                 page |-> NoPage,
                 allowOrigin |-> AllowOrigin(e, q.origin),
                 csp |-> NoCsp]]

\* what crypto.randomUUID() can return (shortened)
UUIDs == {<<"u", "-", "1">>, <<"u", "-", "2">>}

\* crypto.randomUUID().replace(/-/g, '')
Nonce(uuid) == ReplaceAll(uuid, "-", <<>>)

\* (variant: script-src carries no nonce)
CspHeader_m(nonce) == [styleSrc |-> nonce, scriptSrc |-> Null]

\* style-src 'nonce-${nonce}'; script-src 'nonce-${nonce}'
CspHeader(nonce) == [styleSrc |-> nonce, scriptSrc |-> nonce]

\* the part of handleHtmlRequest after the rule name is known; an exception
\* of generateBlockingPage rejects the promise handleRequest has returned
handleHtmlRequest(q, name, uuid) ==
  LET nonce == Nonce(uuid)
      html == generateBlockingPage(name, RuleIdOf(q), BlockedUrlOf(q), CategoryOf(q),
                                   nonce)
  IN IF html.threw THEN [threw |-> TRUE, response |-> NoResponse]
     ELSE [threw |-> FALSE,
           response |-> [status |-> 200, contentType |-> "text/html", text |-> "",
                         json |-> NoJson, page |-> html.page,
                         allowOrigin |-> Null,
                         csp |-> CspHeader(nonce)]]

\* ------------------------------------------------------------------------
\* Cache client and credentials
\* ------------------------------------------------------------------------
\* getCachedRuleName: the stored value, or null without a binding or when
\* the read throws
getCachedRuleName(e, store, ruleId, readThrows) ==
  IF e.RULE_CACHE /\ ~readThrows THEN store[CacheKey(ruleId)] ELSE Null

\* (variant: a put that throws removes the entry)
cacheRuleName_m(e, store, ruleId, name, writeThrows) ==
  IF e.RULE_CACHE
  THEN [store EXCEPT ![CacheKey(ruleId)] = IF writeThrows THEN Null ELSE name]
  ELSE store

\* the store after cacheRuleName; a put that throws is swallowed
cacheRuleName(e, store, ruleId, name, writeThrows) ==
  IF e.RULE_CACHE /\ ~writeThrows THEN [store EXCEPT ![CacheKey(ruleId)] = name] ELSE store

\* parseInt(s): optional sign, then the leading decimal digits; NaN when
\* there is none (or the setting is undefined)
NaN == [nan |-> TRUE, val |-> 0]
IsDigit(c) == HexVal(c) >= 0 /\ HexVal(c) <= 9
RECURSIVE Decimal(_)
Decimal(d) ==
  IF d = <<>> THEN 0 ELSE 10 * Decimal(SubSeq(d, 1, Len(d) - 1)) + HexVal(d[Len(d)])
parseInt(s) ==
  IF s = Null THEN NaN
  ELSE LET t == TrimStart(s)
           signed == t # <<>> /\ Head(t) \in {"+", "-"}
           u == IF signed THEN Tail(t) ELSE t
           n == CHOOSE k \in 0..Len(u) :
                  /\ \A i \in 1..k : IsDigit(u[i])
                  /\ (k = Len(u) \/ ~IsDigit(u[k + 1]))
           v == Decimal(SubSeq(u, 1, n))
       IN IF n = 0 THEN NaN
          ELSE [nan |-> FALSE, val |-> IF signed /\ Head(t) = "-" THEN 0 - v ELSE v]

\* (variant: the test of the parsed value is inverted)
cacheTtl_m(e) ==
  LET parsed == parseInt(e.CACHE_TTL)
  IN IF parsed.nan \/ parsed.val # 0 THEN 3600 ELSE parsed.val

\* parseInt(env.CACHE_TTL) || 3600
cacheTtl(e) ==
  LET parsed == parseInt(e.CACHE_TTL)
  IN IF parsed.nan \/ parsed.val = 0 THEN 3600 ELSE parsed.val

\* the calls made on the RULE_CACHE binding
GetCall(ruleId, threw) ==
  [op |-> "get", key |-> CacheKey(ruleId), value |-> Null, ttl |-> 0, threw |-> threw]
PutCall(e, ruleId, name, threw) ==
  [op |-> "put", key |-> CacheKey(ruleId), value |-> name, ttl |-> cacheTtl(e),
   threw |-> threw]

\* !apiToken || !accountId
MissingCredentials(e) ==
  ~Truthy(e.CLOUDFLARE_API_TOKEN) \/ ~Truthy(e.CLOUDFLARE_ACCOUNT_ID)

\* (variant: consults the cache only when no API lookup is possible)
AfterCacheRead_m(value, e, ruleId) ==
  IF MissingCredentials(e)
  THEN [kind |-> "return", name |-> JsOr(value, RulePrefix \o ruleId)]
  ELSE [kind |-> "fetch", name |-> Null]

\* getRuleName after the cache read: return the cached value, return the
\* placeholder when a credential is missing, or go on to the API
AfterCacheRead(value, e, ruleId) ==
  IF Truthy(value) THEN [kind |-> "return", name |-> value]
  ELSE IF MissingCredentials(e) THEN [kind |-> "return", name |-> RulePrefix \o ruleId]
  ELSE [kind |-> "fetch", name |-> Null]

\* ------------------------------------------------------------------------
\* State
\* ------------------------------------------------------------------------
VARIABLES
  env,        \* the bindings of the deployment
  cache,      \* the key-value store behind RULE_CACHE
  pc,         \* where each request's control flow is suspended
  req,        \* the request being handled
  builder,    \* the response builder handleRequest delegated to
  cached,     \* getRuleName: what the cache read returned
  attempt,    \* fetchWithRetry: loop counter
  lastError,  \* fetchWithRetry: lastError
  calls,      \* what each call of fetch() made for this request produced
  waits,      \* the delays (ms) passed to setTimeout for this request
  ops,        \* the calls this request made on the RULE_CACHE binding
  ruleName,   \* the resolved rule name
  response    \* the response worker.fetch resolved with

vars == <<env, cache, pc, req, builder, cached, attempt, lastError, calls, waits,
          ops, ruleName, response>>

NoRequest == [urlOk |-> FALSE, params |-> NoParams, accept |-> Null, origin |-> Null]

Done(r) == pc[r] \in {"resolved", "rejected"}

\* the awaits (and the ends) at which a flow can be found
AwaitPoints == {"idle", "cacheGet", "fetch", "wait", "cachePut", "resolved", "rejected"}

\* (variant: the backoff wait is a busy loop)
HoldsThread_m(r) == pc[r] = "wait"

\* a flow suspended at an await, a timer included, has given the thread back
HoldsThread(r) == pc[r] \notin AwaitPoints

\* the event loop runs the next step of r when no other flow holds the thread
Runnable(r) == \A o \in Reqs \ {r} : ~HoldsThread(o)

\* the store outlives the worker: it may hold names written earlier
Start(envs, stores) ==
  /\ env \in envs
  /\ cache \in stores
  /\ pc = [r \in Reqs |-> "idle"]
  /\ req = [r \in Reqs |-> NoRequest]
  /\ builder = [r \in Reqs |-> "none"]
  /\ cached = [r \in Reqs |-> Null]
  /\ attempt = [r \in Reqs |-> 0]
  /\ lastError = [r \in Reqs |-> NoError]
  /\ calls = [r \in Reqs |-> <<>>]
  /\ waits = [r \in Reqs |-> <<>>]
  /\ ops = [r \in Reqs |-> <<>>]
  /\ ruleName = [r \in Reqs |-> Null]
  /\ response = [r \in Reqs |-> NoResponse]

Stores == [CacheKeys -> {Null, ApiName}]

Init == Start(Envs, Stores)

\* the rule name is known: the builder runs to its end.  handleRequest
\* returns the builder's promise without awaiting it, so an exception of the
\* builder is not caught by handleRequest's try/catch: worker.fetch rejects.
Finish(r, q, name) ==
  \E uuid \in UUIDs :
    LET out == IF isJsonRequest(q) THEN handleJsonRequest(q, name, env)
               ELSE handleHtmlRequest(q, name, uuid)
    IN /\ ruleName' = [ruleName EXCEPT ![r] = name]
       /\ response' = [response EXCEPT ![r] = out.response]
       /\ pc' = [pc EXCEPT ![r] = IF out.threw THEN "rejected" ELSE "resolved"]

\* (variant: one label for both builders)
NoRuleLabel_m(q) == UnknownRule

\* the rule name of a request without a rule id: each builder has its own
NoRuleLabel(q) == IF isJsonRequest(q) THEN UnknownRule ELSE SecurityPolicy

\* worker.fetch(request, env) up to the first await
HandleRequest(r, pool) ==
  /\ pc[r] = "idle"
  /\ Runnable(r)
  /\ \E q \in pool :
       /\ req' = [req EXCEPT ![r] = q]
       /\ cached' = [cached EXCEPT ![r] = Null]
       /\ attempt' = [attempt EXCEPT ![r] = 0]
       /\ lastError' = [lastError EXCEPT ![r] = NoError]
       /\ calls' = [calls EXCEPT ![r] = <<>>]
       /\ waits' = [waits EXCEPT ![r] = <<>>]
       /\ ops' = [ops EXCEPT ![r] = <<>>]
       /\ IF ~q.urlOk
          THEN /\ builder' = [builder EXCEPT ![r] = "none"]
               /\ ruleName' = [ruleName EXCEPT ![r] = Null]
               /\ response' = [response EXCEPT ![r] =
                                 TextResponse(500, "Internal Server Error")]
               /\ pc' = [pc EXCEPT ![r] = "resolved"]
          ELSE IF ~hasGatewayContext(q)
          THEN /\ builder' = [builder EXCEPT ![r] = "none"]
               /\ ruleName' = [ruleName EXCEPT ![r] = Null]
               /\ response' = [response EXCEPT ![r] = TextResponse(403, "Access Denied")]
               /\ pc' = [pc EXCEPT ![r] = "resolved"]
          ELSE /\ builder' = [builder EXCEPT ![r] =
                                IF isJsonRequest(q) THEN "json" ELSE "html"]
               /\ IF Truthy(RuleIdOf(q))
                  THEN /\ ruleName' = [ruleName EXCEPT ![r] = Null]
                       /\ response' = [response EXCEPT ![r] = NoResponse]
                       /\ pc' = [pc EXCEPT ![r] = "cacheGet"]
                  ELSE Finish(r, q, NoRuleLabel(q))
  /\ UNCHANGED <<env, cache>>

\* getRuleName from the cache read to the credentials check
GetRuleName(r, readFaults) ==
  /\ pc[r] = "cacheGet"
  /\ Runnable(r)
  /\ \E readThrows \in readFaults :
       LET ruleId == RuleIdOf(req[r])
           value == getCachedRuleName(env, cache, ruleId, readThrows)
       IN /\ cached' = [cached EXCEPT ![r] = value]
          /\ ops' = [ops EXCEPT ![r] =
                       IF env.RULE_CACHE THEN Append(@, GetCall(ruleId, readThrows))
                       ELSE @]
          /\ IF AfterCacheRead(value, env, ruleId).kind = "return"
             THEN Finish(r, req[r], AfterCacheRead(value, env, ruleId).name)
             ELSE /\ pc' = [pc EXCEPT ![r] = "fetch"]
                  /\ UNCHANGED <<ruleName, response>>
  /\ UNCHANGED <<env, cache, req, builder, attempt, lastError, calls, waits>>

\* (variant: the name returned names the status the API answered with)
RuleNameOnError_m(ruleId, error) ==
  IF error.kind = "status" THEN RulePrefix \o <<"H", "T", "T", "P">>
  ELSE RulePrefix \o ruleId

\* the catch block of getRuleName: the error is logged, the name returned is
\* made of the rule id alone
RuleNameOnError(ruleId, error) == RulePrefix \o ruleId

\* one iteration of the loop of fetchWithRetry, up to its next await
Fetch(r, outcomes) ==
  /\ pc[r] = "fetch"
  /\ Runnable(r)
  /\ \E oc \in outcomes :
       LET ruleId == RuleIdOf(req[r])
           res == TryBlock(ApiUrl(env.CLOUDFLARE_ACCOUNT_ID, ruleId), oc,
                           attempt[r], MaxRetries, lastError[r])
       IN /\ calls' = [calls EXCEPT ![r] = Append(@, oc)]
          /\ lastError' = [lastError EXCEPT ![r] = res.error]
          /\ IF res.kind = "retry"
             THEN /\ waits' = [waits EXCEPT ![r] = Append(@, res.delay)]
                  /\ pc' = [pc EXCEPT ![r] = "wait"]
                  /\ UNCHANGED <<ruleName, response>>
             ELSE IF res.kind = "throw"
             THEN /\ Finish(r, req[r], RuleNameOnError(ruleId, res.error))
                  /\ UNCHANGED waits
             ELSE /\ ruleName' = [ruleName EXCEPT ![r] = res.value]
                  /\ pc' = [pc EXCEPT ![r] = "cachePut"]
                  /\ UNCHANGED <<waits, response>>
  /\ UNCHANGED <<env, cache, req, builder, cached, attempt, ops>>

\* the timer of a backoff wait fires: attempt++ and the loop test
Timer(r) ==
  /\ pc[r] = "wait"
  /\ Runnable(r)
  /\ attempt' = [attempt EXCEPT ![r] = @ + 1]
  /\ IF attempt[r] + 1 <= MaxRetries
     THEN /\ pc' = [pc EXCEPT ![r] = "fetch"]
          /\ UNCHANGED <<ruleName, response>>
     ELSE Finish(r, req[r], RuleNameOnError(RuleIdOf(req[r]), lastError[r]))
  /\ UNCHANGED <<env, cache, req, builder, cached, lastError, calls, waits, ops>>

\* cacheRuleName, then the return of getRuleName
CacheRuleName(r, writeFaults) ==
  /\ pc[r] = "cachePut"
  /\ Runnable(r)
  /\ \E writeThrows \in writeFaults :
       /\ cache' = cacheRuleName(env, cache, RuleIdOf(req[r]), ruleName[r], writeThrows)
       /\ ops' = [ops EXCEPT ![r] =
                    IF env.RULE_CACHE
                    THEN Append(@, PutCall(env, RuleIdOf(req[r]), ruleName[r], writeThrows))
                    ELSE @]
  /\ Finish(r, req[r], ruleName[r])
  /\ UNCHANGED <<env, req, builder, cached, attempt, lastError, calls, waits>>

\* the runtime has delivered the outcome of worker.fetch; the locals of the
\* invocation are gone and the next request can arrive
Deliver(r) ==
  /\ Done(r)
  /\ Runnable(r)
  /\ pc' = [pc EXCEPT ![r] = "idle"]
  /\ req' = [req EXCEPT ![r] = NoRequest]
  /\ builder' = [builder EXCEPT ![r] = "none"]
  /\ cached' = [cached EXCEPT ![r] = Null]
  /\ attempt' = [attempt EXCEPT ![r] = 0]
  /\ lastError' = [lastError EXCEPT ![r] = NoError]
  /\ calls' = [calls EXCEPT ![r] = <<>>]
  /\ waits' = [waits EXCEPT ![r] = <<>>]
  /\ ops' = [ops EXCEPT ![r] = <<>>]
  /\ ruleName' = [ruleName EXCEPT ![r] = Null]
  /\ response' = [response EXCEPT ![r] = NoResponse]
  /\ UNCHANGED <<env, cache>>

\* the store drops an entry whose expirationTtl has passed
Expire ==
  /\ \E k \in CacheKeys : cache[k] # Null /\ cache' = [cache EXCEPT ![k] = Null]
  /\ UNCHANGED <<env, pc, req, builder, cached, attempt, lastError, calls, waits,
                 ops, ruleName, response>>

\* requests of every shape against an API with few kinds of answers
Next ==
  \/ \E r \in Sequential : HandleRequest(r, Requests)
  \/ \E r \in Sequential : GetRuleName(r, BOOLEAN)
  \/ \E r \in Sequential : Fetch(r, BasicOutcomes)
  \/ \E r \in Sequential : Timer(r)
  \/ \E r \in Sequential : CacheRuleName(r, BOOLEAN)
  \/ \E r \in Sequential : Deliver(r)
  \/ Expire

Spec == Init /\ [][Next]_vars

\* a few requests for one rule against an API with every kind of answer
RetryRequests ==
  {[urlOk |-> TRUE, params |-> [[NoParams EXCEPT !["rule_id"] = Payload]
                                  EXCEPT !["blocked_url"] = u], accept |-> a,
    origin |-> Null] :
      u \in {Null, StrayPercent}, a \in {Null, ApplicationJson}}

NextRetry ==
  \/ \E r \in Sequential : HandleRequest(r, RetryRequests)
  \/ \E r \in Sequential : GetRuleName(r, BOOLEAN)
  \/ \E r \in Sequential : Fetch(r, ApiOutcomes)
  \/ \E r \in Sequential : Timer(r)
  \/ \E r \in Sequential : CacheRuleName(r, BOOLEAN)
  \/ \E r \in Sequential : Deliver(r)
  \/ Expire

SpecRetry == Init /\ [][NextRetry]_vars

\* the same requests with the cache settings varied
\* the test suite's CACHE_TTL
Ttl7200 == <<"7", "2", "0", "0">>
CacheEnvs ==
  {e \in [CLOUDFLARE_API_TOKEN : {Null, ApiToken},
          CLOUDFLARE_ACCOUNT_ID : {Null, AccountId},
          RULE_CACHE : BOOLEAN,
          CACHE_TTL : {Null, Ttl7200},
          ALLOWED_ORIGINS : {Null}] :
     e.CACHE_TTL # Null => e.RULE_CACHE}
\* a name, a payload without a name, and a failure
CacheOutcomes == {Answer(200, "name"), Answer(200, "noname"), Answer(500, "none")}

InitCache == Start(CacheEnvs, Stores)

NextCache ==
  \/ \E r \in Sequential : HandleRequest(r, RetryRequests)
  \/ \E r \in Sequential : GetRuleName(r, BOOLEAN)
  \/ \E r \in Sequential : Fetch(r, CacheOutcomes)
  \/ \E r \in Sequential : Timer(r)
  \/ \E r \in Sequential : CacheRuleName(r, BOOLEAN)
  \/ \E r \in Sequential : Deliver(r)
  \/ Expire

SpecCache == InitCache /\ [][NextCache]_vars

TypeOK ==
  /\ env.RULE_CACHE \in BOOLEAN
  /\ \A r \in Reqs :
       /\ pc[r] \in {"idle", "cacheGet", "fetch", "wait", "cachePut", "resolved", "rejected"}
       /\ builder[r] \in {"none", "json", "html"}
       /\ attempt[r] \in 0..MaxRetries
       /\ response[r].status \in {0, 200, 403, 500}

\* ------------------------------------------------------------------------
\* Vocabulary of the properties
\* ------------------------------------------------------------------------
\* the answer is a status the retry policy names as retryable
RetryableAnswer(oc) == ~oc.threw /\ (oc.status = 429 \/ oc.status >= 500)
\* the answer is a non-success status outside the retry policy
ClientErrorAnswer(oc) ==
  ~oc.threw /\ ~(oc.status >= 200 /\ oc.status <= 299) /\ oc.status # 429 /\ oc.status < 500
\* the API client failed on this call: exception, non-success status or bad body
FailedCall(oc) ==
  oc.threw \/ ~(oc.status >= 200 /\ oc.status <= 299) \/ oc.body = "unparsable"
Placeholder(r) == RulePrefix \o RuleIdOf(req[r])
HasSpecial(v) == \E i \in 1..Len(v) : v[i] \in {"&", "<", ">", "\"", "'"}
PageSlots(page) ==
  {page.ruleNameDiv, page.blockedUrlDiv, page.ruleIdDiv, page.categoryDiv,
   page.emailPreview, page.scriptBody}

\* ------------------------------------------------------------------------
\* C1: when the cache read of a request returns a non-empty value, the
\* request issues no fetch and its rule name is exactly that value.
\* ------------------------------------------------------------------------
C1_CacheHitNoFetch ==
  \A r \in Reqs :
    Truthy(cached[r]) =>
      /\ calls[r] = <<>> /\ waits[r] = <<>>
      /\ Done(r) => ruleName[r] = cached[r]

C1_Witness ==
  \E r \in Reqs :
    /\ pc[r] = "resolved" /\ Truthy(cached[r])
    /\ ~MissingCredentials(env) /\ ruleName[r] = cached[r]

\* ------------------------------------------------------------------------
\* C2: a non-success status that is neither 429 nor >= 500 ends the
\* resolution: the call that received it is the last one and no wait
\* follows it.
\* ------------------------------------------------------------------------
C2_ClientErrorNotRetried ==
  \A r \in Reqs :
    \A i \in 1..Len(calls[r]) :
      ClientErrorAnswer(calls[r][i]) => (i = Len(calls[r]) /\ Len(waits[r]) < i)

\* ------------------------------------------------------------------------
\* C3: every exception while a request is handled becomes the response
\* 500 'Internal Server Error'; worker.fetch never rejects.
\* ------------------------------------------------------------------------
C3_FaultsBecome500 ==
  \A r \in Reqs :
    /\ pc[r] # "rejected"
    /\ (Done(r) /\ ~req[r].urlOk) =>
         (response[r].status = 500 /\ response[r].text = "Internal Server Error")

\* ------------------------------------------------------------------------
\* C4: in an HTML response no interpolation site carries a user-supplied
\* rule identifier, blocked URL or category with a special character
\* verbatim.
\* ------------------------------------------------------------------------
C4_UserInputEscaped ==
  \A r \in Reqs :
    (pc[r] = "resolved" /\ response[r].contentType = "text/html") =>
      \A v \in {RuleIdOf(req[r]), BlockedUrlOf(req[r]), CategoryOf(req[r])} :
        (Truthy(v) /\ HasSpecial(v)) =>
          \A slot \in PageSlots(response[r].page) : ~Contains(slot, v)

\* ------------------------------------------------------------------------
\* C5: one resolution issues at most 4 fetch calls, and an answer with
\* status 429 or >= 500 is followed by a retry while attempts remain.
\* ------------------------------------------------------------------------
C5_AtMostFourFetches ==
  \A r \in Reqs :
    /\ Len(calls[r]) <= 4
    /\ (calls[r] # <<>> /\ Len(calls[r]) < 4 /\ RetryableAnswer(calls[r][Len(calls[r])]))
         => pc[r] \in {"wait", "fetch"}

C5_Witness ==
  \E r \in Reqs :
    /\ Done(r) /\ Len(calls[r]) = 4
    /\ \A i \in 1..4 : RetryableAnswer(calls[r][i])

\* ------------------------------------------------------------------------
\* C6: if the first k answers (0 <= k <= 3) are 429 or >= 500 and answer
\* k+1 is a success with a name, exactly k+1 calls are made and the rule
\* name is that name.
\* ------------------------------------------------------------------------
C6_SuccessAfterRetries ==
  \A r \in Reqs :
    \A k \in 0..3 :
      ( /\ Len(calls[r]) >= k + 1
        /\ \A i \in 1..k : RetryableAnswer(calls[r][i])
        /\ calls[r][k + 1] = Answer(200, "name") )
      => /\ Len(calls[r]) = k + 1
         /\ ruleName[r] = ApiName
         /\ pc[r] \in {"cachePut", "resolved", "rejected"}

C6_Witness ==
  \E r \in Reqs :
    /\ Done(r) /\ ruleName[r] = ApiName
    /\ calls[r] = <<Answer(429, "none"), Answer(429, "none"), Answer(200, "name")>>

\* ------------------------------------------------------------------------
\* C7: the i-th wait of a resolution lasts 2^(i-1) seconds, waits strictly
\* increase, none precedes the first call, and a finished resolution has
\* made one wait less than calls.
\* ------------------------------------------------------------------------
C7_BackoffSchedule ==
  \A r \in Reqs :
    /\ \A i \in 1..Len(waits[r]) : waits[r][i] = (2 ^ (i - 1)) * 1000
    /\ \A i \in 1..(Len(waits[r]) - 1) : waits[r][i] < waits[r][i + 1]
    /\ Len(waits[r]) <= Len(calls[r])
    /\ (Done(r) /\ calls[r] # <<>>) => Len(waits[r]) = Len(calls[r]) - 1

C7_Witness ==
  \E r \in Reqs : Done(r) /\ waits[r] = <<1000, 2000, 4000>> /\ Len(calls[r]) = 4

\* ------------------------------------------------------------------------
\* C8: when the API client fails, the request still ends with status 200
\* and the placeholder name 'Rule <id>'.
\* ------------------------------------------------------------------------
C8_ApiFailureGives200 ==
  \A r \in Reqs :
    (Done(r) /\ calls[r] # <<>> /\ FailedCall(calls[r][Len(calls[r])])) =>
      /\ pc[r] = "resolved"
      /\ response[r].status = 200
      /\ ruleName[r] = Placeholder(r)

\* ------------------------------------------------------------------------
\* C9: with a rule identifier, a cache miss and a missing credential the
\* response has status 200, the rule name is 'Rule <id>' and no fetch is
\* made.
\* ------------------------------------------------------------------------
C9_NoCredentialsGives200 ==
  \A r \in Reqs :
    ( /\ Done(r) /\ req[r].urlOk /\ Truthy(RuleIdOf(req[r]))
      /\ ~Truthy(cached[r]) /\ MissingCredentials(env) ) =>
      /\ pc[r] = "resolved"
      /\ response[r].status = 200
      /\ ruleName[r] = Placeholder(r)
      /\ calls[r] = <<>>

\* ------------------------------------------------------------------------
\* C10: a request with a parsable URL gets 403 'Access Denied' exactly when
\* no rule id, blocked URL, category or user e-mail parameter has a
\* non-empty value and no cf_* parameter is present; every other one is
\* handed to the JSON or HTML builder.
\* ------------------------------------------------------------------------
NoGatewayContext(q) ==
  /\ \A p \in ParamNames \ {"timestamp"} : ~Truthy(q.params[p])
  /\ \A p \in {"cf_rule_id", "cf_site_uri", "cf_request_category_names", "cf_user_email"} :
       q.params[p] = Null

C10_AccessDeniedIffNoContext ==
  \A r \in Reqs :
    (pc[r] # "idle" /\ req[r].urlOk) =>
      /\ NoGatewayContext(req[r]) <=>
           (Done(r) /\ response[r].status = 403 /\ response[r].text = "Access Denied")
      /\ NoGatewayContext(req[r]) <=> builder[r] = "none"

C10_Witness ==
  \E r \in Reqs :
    /\ Done(r) /\ response[r].status = 403
    /\ Truthy(req[r].params["timestamp"])

\* ------------------------------------------------------------------------
\* Vocabulary of the cache properties
\* ------------------------------------------------------------------------
\* the API client returned a name: its last call was a success whose body parsed
ApiReturnedName(r) == calls[r] # <<>> /\ ~FailedCall(calls[r][Len(calls[r])])
IsPut(o) == o.op = "put"
IsGet(o) == o.op = "get"
Puts(r) == SelectSeq(ops[r], IsPut)
Gets(r) == SelectSeq(ops[r], IsGet)
\* the TTL the deployment configures: 7200 where CACHE_TTL is set, else the default
ConfiguredTtl == IF env.CACHE_TTL = Null THEN 3600 ELSE 7200

\* ------------------------------------------------------------------------
\* C11: when the API client returned a name and a cache binding exists,
\* the finished resolution has made exactly one cache write, with key
\* 'rule:<id>', the configured TTL and the returned name as value; no
\* write is made before the API client returns.
\* ------------------------------------------------------------------------
C11_OneWriteOfReturnedName ==
  \A r \in Reqs :
    /\ (Done(r) /\ ApiReturnedName(r) /\ env.RULE_CACHE) =>
         /\ Len(Puts(r)) = 1
         /\ Puts(r)[1].key = CacheKeyPrefix \o RuleIdOf(req[r])
         /\ Puts(r)[1].value = ruleName[r]
         /\ Puts(r)[1].ttl = ConfiguredTtl
         /\ isJsonRequest(req[r]) => response[r].json.rule_name = Puts(r)[1].value
    /\ pc[r] \in {"cacheGet", "fetch", "wait", "cachePut"} => Puts(r) = <<>>

C11_Witness ==
  \E r \in Reqs :
    /\ pc[r] = "resolved" /\ env.RULE_CACHE /\ env.CACHE_TTL = Ttl7200
    /\ calls[r] = <<Answer(500, "none"), Answer(200, "noname")>>
    /\ Len(Puts(r)) = 1 /\ Puts(r)[1].ttl = 7200
    /\ Puts(r)[1].value = ruleName[r]

ReadThrew(r) == \E i \in 1..Len(ops[r]) : ops[r][i].op = "get" /\ ops[r][i].threw
WriteThrew(r) == \E i \in 1..Len(ops[r]) : ops[r][i].op = "put" /\ ops[r][i].threw
\* the name the API client returned on its last call
ReturnedByApi(r) ==
  IF calls[r][Len(calls[r])].body = "name" THEN ApiName
  ELSE RulePrefix \o LastSegment(ApiUrl(env.CLOUDFLARE_ACCOUNT_ID, RuleIdOf(req[r])))

\* ------------------------------------------------------------------------
\* C12: a cache fault never fails the request.  After a cache read that
\* threw, or without a cache binding, the request goes on as on a miss
\* (the API is consulted when both credentials exist); after a cache write
\* that threw, the name the API returned is the rule name; in each case the
\* request ends with status 200.
\* ------------------------------------------------------------------------
C12_CacheFaultsAreHarmless ==
  \A r \in Reqs :
    /\ (pc[r] \notin {"idle", "cacheGet"} /\ Truthy(RuleIdOf(req[r]))
          /\ (ReadThrew(r) \/ ~env.RULE_CACHE)) =>
         /\ cached[r] = Null
         /\ ~MissingCredentials(env) => (pc[r] = "fetch" \/ calls[r] # <<>>)
    /\ (Done(r) /\ WriteThrew(r)) => ruleName[r] = ReturnedByApi(r)
    /\ (Done(r) /\ Truthy(RuleIdOf(req[r]))
          /\ (ReadThrew(r) \/ WriteThrew(r) \/ ~env.RULE_CACHE)) =>
         (pc[r] = "resolved" /\ response[r].status = 200)

\* ------------------------------------------------------------------------
\* Requests with an Origin header against deployments with an allow-list
\* ------------------------------------------------------------------------
\* two origins (standing for https://test1.com and https://test2.com)
OriginA == <<"a">>
OriginB == <<"b">>
\* Origin header: absent, empty, or one of the origins
Origins == {Null, <<>>, OriginA, OriginB}
\* ALLOWED_ORIGINS: unset, empty, one origin, two origins with a blank after
\* the comma, one origin with a trailing comma, a longer origin
ListA == <<"a">>
ListAB == <<"a", ",", " ", "b">>
ListTrailing == <<"a", ",">>
ListLonger == <<"a", "b">>
AllowLists == {Null, <<>>, ListA, ListAB, ListTrailing, ListLonger}

CorsEnvs ==
  [CLOUDFLARE_API_TOKEN : {ApiToken},
   CLOUDFLARE_ACCOUNT_ID : {AccountId},
   RULE_CACHE : {TRUE},
   CACHE_TTL : {Null},
   ALLOWED_ORIGINS : AllowLists]
CorsRequests ==
  {[urlOk |-> TRUE, params |-> [NoParams EXCEPT !["rule_id"] = Payload],
    accept |-> a, origin |-> o] : a \in {Null, ApplicationJson}, o \in Origins}

InitCors == Start(CorsEnvs, Stores)

NextCors ==
  \/ \E r \in Sequential : HandleRequest(r, CorsRequests)
  \/ \E r \in Sequential : GetRuleName(r, BOOLEAN)
  \/ \E r \in Sequential : Fetch(r, BasicOutcomes)
  \/ \E r \in Sequential : Timer(r)
  \/ \E r \in Sequential : CacheRuleName(r, BOOLEAN)
  \/ \E r \in Sequential : Deliver(r)
  \/ Expire

SpecCors == InitCors /\ [][NextCors]_vars

\* ------------------------------------------------------------------------
\* Concurrent requests: every slot handles one request, the flows
\* interleave at their awaits; the store starts empty and is healthy
\* ------------------------------------------------------------------------
ConcEnvs ==
  [CLOUDFLARE_API_TOKEN : {ApiToken},
   CLOUDFLARE_ACCOUNT_ID : {AccountId},
   RULE_CACHE : {TRUE},
   CACHE_TTL : {Null},
   ALLOWED_ORIGINS : {Null}]
EmptyStores == {[k \in CacheKeys |-> Null]}
\* requests for one rule (JSON, and HTML with a malformed blocked URL) and
\* requests without a rule id (JSON and HTML)
ConcRequests ==
  {[urlOk |-> TRUE, params |-> [NoParams EXCEPT !["rule_id"] = Payload],
    accept |-> ApplicationJson, origin |-> Null],
   [urlOk |-> TRUE, params |-> [[NoParams EXCEPT !["rule_id"] = Payload]
                                   EXCEPT !["blocked_url"] = StrayPercent],
    accept |-> Null, origin |-> Null]}
  \cup {[urlOk |-> TRUE, params |-> [NoParams EXCEPT !["category"] = Payload],
          accept |-> a, origin |-> Null] : a \in {Null, ApplicationJson}}
\* a name, or the rate limit
ConcOutcomes == {Answer(200, "name"), Answer(429, "none")}

InitConc == Start(ConcEnvs, EmptyStores)

NextConc ==
  \/ \E r \in Reqs : HandleRequest(r, ConcRequests)
  \/ \E r \in Reqs : GetRuleName(r, {FALSE})
  \/ \E r \in Reqs : Fetch(r, ConcOutcomes)
  \/ \E r \in Reqs : Timer(r)
  \/ \E r \in Reqs : CacheRuleName(r, {FALSE})

SpecConc == InitConc /\ [][NextConc]_vars

\* the entries of the configured allow-list, written out for each setting
ConfiguredOrigins ==
  CASE env.ALLOWED_ORIGINS = ListA -> {OriginA}
    [] env.ALLOWED_ORIGINS = ListAB -> {OriginA, OriginB}
    [] env.ALLOWED_ORIGINS = ListTrailing -> {OriginA, <<>>}
    [] env.ALLOWED_ORIGINS = ListLonger -> {<<"a", "b">>}
    [] OTHER -> {}
JsonResponse(r) == pc[r] = "resolved" /\ response[r].contentType = "application/json"

\* ------------------------------------------------------------------------
\* C13 (as claimed): the Access-Control-Allow-Origin of a JSON response is
\* the request's Origin when that is an exact member of the trimmed
\* allow-list, and the string 'null' in every other case.
\* ------------------------------------------------------------------------
C13_AllowOriginEchoesMember ==
  \A r \in Reqs :
    JsonResponse(r) =>
      response[r].allowOrigin =
        IF req[r].origin # Null /\ req[r].origin \in ConfiguredOrigins
        THEN req[r].origin ELSE NullLiteral

\* ------------------------------------------------------------------------
\* C13 (amended): the Access-Control-Allow-Origin of a JSON response is
\* the request's Origin when that is non-empty and an exact member of the
\* trimmed allow-list, and the string 'null' in every other case, an empty
\* Origin header included.
\* ------------------------------------------------------------------------
C13_AllowOriginEchoesNonEmptyMember ==
  \A r \in Reqs :
    JsonResponse(r) =>
      response[r].allowOrigin =
        IF req[r].origin \notin {Null, <<>>} /\ req[r].origin \in ConfiguredOrigins
        THEN req[r].origin ELSE NullLiteral

C13_Witness ==
  \E r \in Reqs :
    /\ JsonResponse(r) /\ env.ALLOWED_ORIGINS = ListAB
    /\ req[r].origin = OriginB /\ response[r].allowOrigin = OriginB

\* ------------------------------------------------------------------------
\* C14: when the API call succeeds with a payload that carries no name,
\* the resolved rule name is 'Rule ' followed by the rule identifier, the
\* label of an API failure, whatever characters the identifier contains.
\* ------------------------------------------------------------------------
C14_NamelessPayloadGivesPlaceholder ==
  \A r \in Reqs :
    ( /\ pc[r] \in {"cachePut", "resolved", "rejected"}
      /\ calls[r] # <<>>
      /\ calls[r][Len(calls[r])] = Answer(200, "noname") ) =>
      ruleName[r] = RulePrefix \o RuleIdOf(req[r])

\* a finished request that had gateway context but no rule identifier
NoRuleId(r) ==
  /\ Done(r) /\ req[r].urlOk /\ ~NoGatewayContext(req[r])
  /\ \A i \in 1..Len(RuleIdParams) : ~Truthy(req[r].params[RuleIdParams[i]])
NoLookup(r) == ops[r] = <<>> /\ calls[r] = <<>> /\ waits[r] = <<>> /\ cached[r] = Null

\* ------------------------------------------------------------------------
\* C15 (as claimed): requests without a rule identifier all get one and
\* the same rule name, and make no cache read, no cache write and no
\* fetch.
\* ------------------------------------------------------------------------
C15_OneLabelNoLookup ==
  /\ \A r1, r2 \in Reqs : (NoRuleId(r1) /\ NoRuleId(r2)) => ruleName[r1] = ruleName[r2]
  /\ \A r \in Reqs : NoRuleId(r) => NoLookup(r)

\* ------------------------------------------------------------------------
\* C15 (amended): a request without a rule identifier gets the rule name
\* 'Unknown Rule' from the JSON builder and 'Security Policy' from the HTML
\* builder, and makes no cache read, no cache write and no fetch.
\* ------------------------------------------------------------------------
C15_LabelPerBuilderNoLookup ==
  \A r \in Reqs :
    NoRuleId(r) =>
      /\ builder[r] = "json" => ruleName[r] = UnknownRule
      /\ builder[r] = "html" => ruleName[r] = SecurityPolicy
      /\ builder[r] \in {"json", "html"}
      /\ NoLookup(r)

C15_Witness ==
  \E r1, r2 \in Reqs :
    /\ NoRuleId(r1) /\ builder[r1] = "json" /\ ruleName[r1] = UnknownRule
    /\ NoRuleId(r2) /\ builder[r2] = "html" /\ ruleName[r2] = SecurityPolicy
    /\ NoLookup(r1) /\ NoLookup(r2)

\* ------------------------------------------------------------------------
\* C16: every finished request has a response with status 200, 403 or 500,
\* and a request whose URL parses and that has gateway context ends with
\* status 200 whatever the cache and the API do.
\* ------------------------------------------------------------------------
C16_StatusIs200Or403Or500 ==
  \A r \in Reqs :
    Done(r) =>
      /\ response[r].status \in {200, 403, 500}
      /\ (req[r].urlOk /\ ~NoGatewayContext(req[r])) => response[r].status = 200

\* the Accept headers of the model that contain 'application/json'
WantsJson(q) == q.accept \in {ApplicationJson, HtmlThenJson}

\* ------------------------------------------------------------------------
\* C17: a request that reaches a builder is handled by the JSON builder
\* exactly when its Accept header is present and contains
\* 'application/json', and by the HTML builder otherwise, whatever its
\* parameters, the credentials and the cache; the response has the
\* builder's content type.
\* ------------------------------------------------------------------------
C17_JsonIffAcceptHasJson ==
  \A r \in Reqs :
    /\ builder[r] # "none" =>
         /\ builder[r] = "json" <=> WantsJson(req[r])
         /\ builder[r] = "html" <=> ~WantsJson(req[r])
    /\ (pc[r] = "resolved" /\ builder[r] # "none") =>
         response[r].contentType =
           IF WantsJson(req[r]) THEN "application/json" ELSE "text/html"

C17_Witness ==
  \E r \in Reqs :
    /\ pc[r] = "resolved" /\ req[r].accept = HtmlThenJson
    /\ builder[r] = "json" /\ response[r].contentType = "application/json"
    /\ calls[r] # <<>>

HtmlResponse(r) == pc[r] = "resolved" /\ response[r].contentType = "text/html"
\* the nonces a UUID of the runtime yields: the UUID without its dashes
RuntimeNonces == {<<"u", "1">>, <<"u", "2">>}

\* ------------------------------------------------------------------------
\* C18: in every HTML response one nonce, made from a UUID of the runtime
\* and not from the request, is the value of style-src and script-src in
\* the Content-Security-Policy header and of the nonce attribute of the
\* inline style and script tags.
\* ------------------------------------------------------------------------
C18_OneNonceEverywhere ==
  \A r \in Reqs :
    HtmlResponse(r) =>
      /\ response[r].csp.styleSrc \in RuntimeNonces
      /\ response[r].csp.scriptSrc = response[r].csp.styleSrc
      /\ response[r].page.styleNonce = response[r].csp.styleSrc
      /\ response[r].page.scriptNonce = response[r].csp.styleSrc

C18_Witness ==
  \E r \in Reqs :
    /\ HtmlResponse(r) /\ Truthy(RuleIdOf(req[r])) /\ calls[r] # <<>>
    /\ response[r].csp.scriptSrc = <<"u", "2">>
    /\ response[r].page.scriptNonce = <<"u", "2">>

\* a step of the flow of slot r after the request has arrived
StepOf(r) ==
  \/ GetRuleName(r, {FALSE})
  \/ Fetch(r, ConcOutcomes)
  \/ Timer(r)
  \/ CacheRuleName(r, {FALSE})
\* what belongs to the flow of slot r
Locals(r) ==
  <<pc[r], req[r], builder[r], cached[r], attempt[r], lastError[r], calls[r],
    waits[r], ops[r], ruleName[r], response[r]>>

\* ------------------------------------------------------------------------
\* C19: a backoff wait suspends the retrying request only.  A request
\* whose own steps are taken whenever they are possible completes, even if
\* the timers of the other requests never fire; and a step of one request
\* changes nothing of another request, so a wait ends by its own timer
\* only.
\* ------------------------------------------------------------------------
C19_WaitSuspendsOnlyTheRetrier ==
  /\ \A r \in Reqs : WF_vars(StepOf(r)) => (pc[r] # "idle" ~> Done(r))
  /\ [][\A r1 \in Reqs :
          (pc[r1] = "wait" /\ Locals(r1)' # Locals(r1)) =>
            /\ attempt'[r1] = attempt[r1] + 1
            /\ \A r2 \in Reqs \ {r1} : Locals(r2)' = Locals(r2)]_vars

C19_Witness ==
  \E r1, r2 \in Reqs :
    /\ pc[r1] = "wait" /\ waits[r1] = <<1000>>
    /\ pc[r2] = "resolved" /\ waits[r2] = <<1000, 2000, 4000>>
    /\ response[r2].status = 200

\* the requests for a rule that got no name from their cache read
Missed(r) ==
  /\ pc[r] \notin {"idle", "cacheGet"} /\ req[r].urlOk
  /\ Truthy(RuleIdOf(req[r])) /\ ~Truthy(cached[r])
\* the names the requests that missed have written under key k
WrittenBy(k) ==
  {Puts(r)[i].value : r \in {x \in Reqs : Missed(x) /\ Puts(x) # <<>>}, i \in {1}}
\* every slot has finished a request for the rule, and each had missed
AllMissedAndDone == \A r \in Reqs : Missed(r) /\ Done(r)

\* ------------------------------------------------------------------------
\* C20: of concurrent requests for one rule id that all miss the cache,
\* each makes its own API resolution and completes with status 200 and a
\* non-empty rule name, and once all have completed the store holds under
\* 'rule:<id>' a name written by one of them.
\* ------------------------------------------------------------------------
C20_ConcurrentMissesAllResolve ==
  /\ \A r \in Reqs :
       (Missed(r) /\ Done(r)) =>
         /\ calls[r] # <<>>
         /\ pc[r] = "resolved" /\ response[r].status = 200
         /\ Truthy(ruleName[r])
  /\ (AllMissedAndDone /\ WrittenBy(CacheKey(Payload)) # {}) =>
       cache[CacheKey(Payload)] \in WrittenBy(CacheKey(Payload))

\* ------------------------------------------------------------------------
\* Requests that vary the values of the parameters, against a deployment
\* without credentials and without a cache binding
\* ------------------------------------------------------------------------
InputEnvs ==
  [CLOUDFLARE_API_TOKEN : {Null},
   CLOUDFLARE_ACCOUNT_ID : {Null},
   RULE_CACHE : {FALSE},
   CACHE_TTL : {Null},
   ALLOWED_ORIGINS : {Null}]

\* an alias is absent, present and empty, or present with a value of its own
AliasValues(v) == {Null, <<>>, <<v>>}
AliasRequests ==
  {[urlOk |-> TRUE,
    params |-> [NoParams EXCEPT !["cf_rule_id"] = a1, !["rule_id"] = a2, !["ruleid"] = a3,
                                !["cf_site_uri"] = b1, !["blocked_url"] = b2, !["url"] = b3,
                                !["cf_request_category_names"] = c1, !["category"] = c2],
    accept |-> ApplicationJson, origin |-> Null] :
      a1 \in AliasValues("1"), a2 \in AliasValues("2"), a3 \in AliasValues("3"),
      b1 \in AliasValues("4"), b2 \in AliasValues("5"), b3 \in AliasValues("6"),
      c1 \in AliasValues("7"), c2 \in AliasValues("8")}
InputRequests == AliasRequests

InitInput == Start(InputEnvs, EmptyStores)

NextInput ==
  \/ \E r \in Sequential : HandleRequest(r, InputRequests)
  \/ \E r \in Sequential : GetRuleName(r, {FALSE})
  \/ \E r \in Sequential : Deliver(r)

SpecInput == InitInput /\ [][NextInput]_vars

\* the value of the first of the aliases that is present and non-empty
\* (Null when there is none)
FirstNonEmpty(q, aliases) ==
  LET idx == {i \in 1..Len(aliases) : q.params[aliases[i]] \notin {Null, <<>>}}
      first == CHOOSE i \in idx : \A j \in idx : i <= j
  IN IF idx = {} THEN Null ELSE q.params[aliases[first]]
BlockedUrlParams == <<"cf_site_uri", "blocked_url", "url">>
CategoryParams == <<"cf_request_category_names", "category">>
\* v is the value first, or an empty value when there is none
Resolves(v, first) == IF first = Null THEN v \in {Null, <<>>} ELSE v = first

\* ------------------------------------------------------------------------
\* C21: the rule id is the first non-empty value among cf_rule_id, rule_id,
\* ruleid, the blocked URL the first among cf_site_uri, blocked_url, url,
\* the category the first among cf_request_category_names, category; an
\* alias present with an empty value is skipped.  These are the values
\* the JSON response reports and the rule id the name is resolved for.
\* ------------------------------------------------------------------------
C21_FirstNonEmptyAlias ==
  \A r \in Reqs :
    JsonResponse(r) =>
      /\ Resolves(response[r].json.rule_id, FirstNonEmpty(req[r], RuleIdParams))
      /\ Resolves(response[r].json.blocked_url, FirstNonEmpty(req[r], BlockedUrlParams))
      /\ Resolves(response[r].json.category, FirstNonEmpty(req[r], CategoryParams))
      /\ FirstNonEmpty(req[r], RuleIdParams) # Null =>
           ruleName[r] = RulePrefix \o FirstNonEmpty(req[r], RuleIdParams)

C21_Witness ==
  \E r \in Reqs :
    /\ JsonResponse(r)
    /\ req[r].params["cf_rule_id"] = <<>> /\ req[r].params["rule_id"] = <<"2">>
    /\ req[r].params["ruleid"] = <<"3">> /\ response[r].json.rule_id = <<"2">>
    /\ req[r].params["cf_site_uri"] = <<"4">> /\ req[r].params["url"] = <<"6">>
    /\ response[r].json.blocked_url = <<"4">>
    /\ ruleName[r] = RulePrefix \o <<"2">>

\* ------------------------------------------------------------------------
\* C22: the worker changes the store only by the write that follows a
\* successful API resolution, and then stores the resolved name under the
\* key of the rule; it never removes an entry.  A request that ends
\* without a name from the API (403, cache hit, missing credential, API
\* failure) has made no cache write.
\* ------------------------------------------------------------------------
C22_WriteOnlyAfterSuccess ==
  /\ [](\A r \in Reqs : (Done(r) /\ ~ApiReturnedName(r)) => Puts(r) = <<>>)
  /\ [][(cache' # cache /\ pc' # pc) =>
          \E r \in Reqs :
            /\ pc[r] = "cachePut" /\ ApiReturnedName(r)
            /\ ruleName[r] = ReturnedByApi(r)
            /\ cache' = [cache EXCEPT ![CacheKeyPrefix \o RuleIdOf(req[r])] = ruleName[r]]]_vars

C22_Witness ==
  \E r \in Reqs :
    /\ pc[r] = "resolved" /\ env.RULE_CACHE
    /\ Len(calls[r]) = 4 /\ calls[r][4] = Answer(503, "none")
    /\ ruleName[r] = Placeholder(r)
    /\ Len(ops[r]) = 1 /\ Puts(r) = <<>>
    /\ cache[CacheKey(RuleIdOf(req[r]))] = Null

\* the error a failed call raises in the attempt numbered a (from 0)
ErrorOf(oc, a) ==
  IF oc.threw THEN [kind |-> "network", status |-> 0, attempt |-> a]
  ELSE IF oc.body = "unparsable" THEN [kind |-> "json", status |-> 0, attempt |-> a]
  ELSE [kind |-> "status", status |-> oc.status, attempt |-> a]

\* ------------------------------------------------------------------------
\* C23: a fetch that throws in attempt i < 4 is followed by a wait of
\* 2^(i-1) seconds and then by the next attempt; when the fourth attempt
\* fails, the error fetchWithRetry raises is the error of that attempt.
\* ------------------------------------------------------------------------
C23_ExceptionRetriedLastErrorRaised ==
  \A r \in Reqs :
    /\ \A i \in 1..Len(calls[r]) :
         (calls[r][i].threw /\ i < 4) =>
           /\ Len(waits[r]) >= i /\ waits[r][i] = (2 ^ (i - 1)) * 1000
           /\ IF Len(calls[r]) = i THEN pc[r] \in {"wait", "fetch"} ELSE TRUE
    /\ (Len(calls[r]) = 4 /\ FailedCall(calls[r][4])) =>
         /\ Done(r)
         /\ lastError[r] = ErrorOf(calls[r][4], 3)

C23_Witness ==
  \E r \in Reqs :
    /\ Done(r) /\ Len(calls[r]) = 4
    /\ calls[r][1] = Answer(429, "none") /\ calls[r][2].threw
    /\ calls[r][3] = Answer(200, "unparsable") /\ calls[r][4].threw
    /\ waits[r] = <<1000, 2000, 4000>>
    /\ lastError[r].kind = "network" /\ lastError[r].attempt = 3

\* the lookup of request r missed the cache, went to the API and failed
LookupFailed(r) ==
  /\ Done(r) /\ req[r].urlOk /\ Truthy(RuleIdOf(req[r]))
  /\ ~Truthy(cached[r]) /\ ~MissingCredentials(env)
  /\ calls[r] # <<>> /\ FailedCall(calls[r][Len(calls[r])])
\* what the builders make of request q and the placeholder name alone
OutcomeOf(q, uuid) ==
  IF isJsonRequest(q) THEN handleJsonRequest(q, RulePrefix \o RuleIdOf(q), env)
  ELSE handleHtmlRequest(q, RulePrefix \o RuleIdOf(q), uuid)
\* the rule name a response shows
NameShown(resp) ==
  IF resp.contentType = "application/json" THEN resp.json.rule_name
  ELSE resp.page.ruleNameDiv

\* ------------------------------------------------------------------------
\* C24: the outcome of a request whose lookup failed is determined by the
\* request alone, whatever the API answered or threw (so two runs that
\* differ only in the failures agree): the name is 'Rule <id>', the outcome
\* is what the builder makes of the request and that name, and a response
\* has status 200 and shows that name and nothing of the API's answers.
\* ------------------------------------------------------------------------
C24_FailureKindNotObservable ==
  \A r \in Reqs :
    LookupFailed(r) =>
      /\ ruleName[r] = Placeholder(r)
      /\ \E uuid \in UUIDs :
           /\ response[r] = OutcomeOf(req[r], uuid).response
           /\ (pc[r] = "rejected") = OutcomeOf(req[r], uuid).threw
      /\ pc[r] = "resolved" =>
           /\ response[r].status = 200
           /\ response[r].text = ""
           /\ NameShown(response[r]) \in {Placeholder(r), escapeHtml(Placeholder(r))}

C24_Witness ==
  \E r \in Reqs :
    /\ LookupFailed(r) /\ pc[r] = "resolved"
    /\ calls[r] = <<Answer(404, "none"), Threw, Answer(500, "none"),
                    Answer(200, "unparsable")>>
    /\ response[r].status = 200
    /\ response[r].contentType = "text/html"
    /\ response[r].page.ruleNameDiv = escapeHtml(Placeholder(r))

\* ------------------------------------------------------------------------
\* Liveness: one request at a time against an empty store, with the
\* scheduling the runtime gives: a cache call and a fetch call return or
\* throw, and a timer fires.  Nothing obliges a client to send a request or
\* the runtime to reuse a slot.
\* ------------------------------------------------------------------------
LiveOutcomes ==
  {Threw, Answer(200, "name"), Answer(200, "unparsable"), Answer(404, "none"),
   Answer(429, "none")}
\* requests with and without a rule id, JSON and HTML; the page of an HTML
\* request that went through a lookup is built in SpecRetry, here the HTML
\* request with a rule id is the one whose builder throws
LiveRequests ==
  {q \in RetryRequests \cup ConcRequests :
     isJsonRequest(q) \/ ~Truthy(RuleIdOf(q)) \/ BlockedUrlOf(q) = StrayPercent}
InitLive == Start(ConcEnvs, EmptyStores)
FlowStep(r) ==
  \/ GetRuleName(r, BOOLEAN)
  \/ Fetch(r, LiveOutcomes)
  \/ Timer(r)
  \/ CacheRuleName(r, BOOLEAN)
NextLive ==
  \/ \E r \in Sequential : HandleRequest(r, LiveRequests)
  \/ \E r \in Sequential : GetRuleName(r, BOOLEAN)
  \/ \E r \in Sequential : Fetch(r, LiveOutcomes)
  \/ \E r \in Sequential : Timer(r)
  \/ \E r \in Sequential : CacheRuleName(r, BOOLEAN)
  \/ \E r \in Sequential : Deliver(r)
Fairness == \A r \in Sequential : WF_vars(FlowStep(r))
SpecLive == InitLive /\ [][NextLive]_vars /\ Fairness

\* the calls request r has made stay within the budget of one request
WithinBudget(r) ==
  /\ Len(Gets(r)) <= 1 /\ Len(calls[r]) <= MaxRetries + 1
  /\ Len(waits[r]) <= MaxRetries /\ Len(Puts(r)) <= 1

\* ------------------------------------------------------------------------
\* C25 (as claimed): every request that has arrived reaches a returned
\* response, after at most one cache read, four fetches, three waits and
\* one cache write.
\* ------------------------------------------------------------------------
C25_EveryRequestGetsResponse ==
  /\ \A r \in Reqs : (pc[r] # "idle") ~> (pc[r] = "resolved")
  /\ [](\A r \in Reqs : WithinBudget(r))

\* ------------------------------------------------------------------------
\* escapeHtml on every string: HTML requests whose rule id is any string
\* of up to MaxLen characters among the five special ones and a plain one,
\* in a deployment without credentials, so that the page shows
\* escapeHtml(ruleId) and escapeHtml('Rule ' + ruleId)
\* ------------------------------------------------------------------------
EscapeAlphabet == {"&", "<", ">", "\"", "'", "a"}
EscapeInputs == UNION {[1..k -> EscapeAlphabet] : k \in 1..MaxLen}
EscapeRequests ==
  {[urlOk |-> TRUE, params |-> [NoParams EXCEPT !["rule_id"] = v],
    accept |-> Null, origin |-> Null] : v \in EscapeInputs}
InitEscape == Start(InputEnvs, EmptyStores)
NextEscape ==
  \/ \E r \in Sequential : HandleRequest(r, EscapeRequests)
  \/ \E r \in Sequential : GetRuleName(r, {FALSE})
  \/ \E r \in Sequential : Deliver(r)
SpecEscape == InitEscape /\ [][NextEscape]_vars

\* the replacement of one character
EscapedChar(c) ==
  CASE c = "&" -> <<"&", "a", "m", "p", ";">>
    [] c = "<" -> <<"&", "l", "t", ";">>
    [] c = ">" -> <<"&", "g", "t", ";">>
    [] c = "\"" -> <<"&", "q", "u", "o", "t", ";">>
    [] c = "'" -> <<"&", "#", "3", "9", ";">>
    [] OTHER -> <<c>>
\* every character of s replaced on its own, from left to right
RECURSIVE EscapeEach(_)
EscapeEach(s) == IF s = <<>> THEN <<>> ELSE EscapedChar(Head(s)) \o EscapeEach(Tail(s))
Markup(s) == \E i \in 1..Len(s) : s[i] \in {"<", ">", "\"", "'"}

\* ------------------------------------------------------------------------
\* C26: escapeHtml replaces each of & < > " ' by its entity, once, and
\* leaves every other character as it is; an absent or an empty input
\* gives the empty string; the output holds none of < > " '.
\* ------------------------------------------------------------------------
C26_EscapeHtmlCharwise ==
  /\ escapeHtml(Null) = <<>>
  /\ escapeHtml(<<>>) = <<>>
  /\ \A r \in Reqs :
       (HtmlResponse(r) /\ Truthy(RuleIdOf(req[r])) /\ ~Truthy(CategoryOf(req[r]))) =>
         /\ response[r].page.ruleIdDiv = EscapeEach(RuleIdOf(req[r]))
         /\ response[r].page.ruleNameDiv = EscapeEach(ruleName[r])
         /\ ~Markup(response[r].page.ruleIdDiv)
         /\ ~Markup(response[r].page.ruleNameDiv)

C26_Witness ==
  \E r \in Reqs :
    /\ HtmlResponse(r)
    /\ RuleIdOf(req[r]) = <<"<", "&", "'">>
    /\ response[r].page.ruleIdDiv =
         <<"&", "l", "t", ";", "&", "a", "m", "p", ";", "&", "#", "3", "9", ";">>

\* ------------------------------------------------------------------------
\* The cache write under every kind of CACHE_TTL setting: absent, the test
\* suite's value, zero, negative, not a number, a number with a unit, empty
\* ------------------------------------------------------------------------
TtlValues ==
  {Null, Ttl7200, <<"0">>, <<"-", "5">>, <<"a", "b", "c">>, <<"6", "0", "s">>, <<>>}
TtlEnvs ==
  [CLOUDFLARE_API_TOKEN : {ApiToken},
   CLOUDFLARE_ACCOUNT_ID : {AccountId},
   RULE_CACHE : {TRUE},
   CACHE_TTL : TtlValues,
   ALLOWED_ORIGINS : {Null}]
TtlRequests == {q \in RetryRequests : isJsonRequest(q)}
InitTtl == Start(TtlEnvs, EmptyStores)
NextTtl ==
  \/ \E r \in Sequential : HandleRequest(r, TtlRequests)
  \/ \E r \in Sequential : GetRuleName(r, {FALSE})
  \/ \E r \in Sequential : Fetch(r, BasicOutcomes)
  \/ \E r \in Sequential : Timer(r)
  \/ \E r \in Sequential : CacheRuleName(r, BOOLEAN)
  \/ \E r \in Sequential : Deliver(r)
SpecTtl == InitTtl /\ [][NextTtl]_vars

\* the integer CACHE_TTL parses to, or the default when it parses to none
ParsedOrDefault ==
  IF parseInt(env.CACHE_TTL).nan THEN 3600 ELSE parseInt(env.CACHE_TTL).val

\* ------------------------------------------------------------------------
\* C27 (as claimed): every cache write carries a positive TTL, the integer
\* CACHE_TTL parses to, or 3600 when CACHE_TTL is absent or parses to no
\* number.
\* ------------------------------------------------------------------------
C27_TtlPositiveParsedOrDefault ==
  \A r \in Reqs : \A i \in 1..Len(Puts(r)) :
    /\ Puts(r)[i].ttl > 0
    /\ Puts(r)[i].ttl = ParsedOrDefault

====
